---- MODULE Spec2Model ----
(***************************************************************************)
(* Flocker volume manager prototype (prototype/flocker.py).                *)
(*                                                                         *)
(* Byte strings are sequences of one-character strings, so that split,     *)
(* join and concatenation are computed character by character.             *)
(*                                                                         *)
(* Two specifications:                                                     *)
(*   SpecCodec  the pure name conversions and listVolumes, applied to      *)
(*              inputs drawn by its initial states;                        *)
(*   Spec       two flocker process runs against one ZFS pool, each run    *)
(*              performing one sub-command (createVolume, branchOffBranch).*)
(***************************************************************************)
EXTENDS Integers, Sequences, FiniteSets

VARIABLES
    poolName,   \* Flocker.poolName (= Flocker.flockerName) of the runs
    datasets,   \* ZFS namespace: names of the existing datasets
    snapshots,  \* ZFS namespace: names of the existing snapshots
    origin,     \* ZFS namespace: <<clone, snapshot>> pairs (the clone's origin)
    initial,    \* the ZFS namespace the runs started from
    pc,         \* per process run: "start", "snapshot", "clone", "done"
    cur,        \* per process run: the sub-command and its arguments
    calls,      \* per process run: the zfs() invocations made, with exit codes
    outcome,    \* per process run: the exception the run ended with
    arg,        \* SpecCodec: the input the conversion is applied to
    res         \* SpecCodec: the value or exception the conversion produced

vars == <<poolName, datasets, snapshots, origin, initial, pc, cur, calls,
          outcome, arg, res>>

engineVars == <<datasets, snapshots, origin>>

----------------------------------------------------------------------------
(* Bounds *)

\* longest raw string handed to fromDatasetName / fromBranchName
MaxLen == 5
\* longest token (owner, volume, branch, pool name) of a valid identifier
MaxTokLen == 2
\* longest directory listing handed to listVolumes
MaxListing == 3

----------------------------------------------------------------------------
(* Byte strings *)

Dot == "."
Slash == "/"
At == "@"

\* characters of identifier tokens
TokenChars == {"a", "p"}
\* characters of raw input strings
RawChars == TokenChars \cup {Dot, Slash}

StringsUpTo(chars, n) == UNION {[1..k -> chars] : k \in 0..n}

\* c in s
Contains(s, c) == \E i \in 1..Len(s) : s[i] = c

\* s.index(c), for c in s
IndexOf(s, c) ==
    CHOOSE i \in 1..Len(s) : s[i] = c /\ \A j \in 1..(i - 1) : s[j] # c

\* s.split(sep) for a one-byte separator: always at least one part, empty
\* parts kept
RECURSIVE split(_, _)
split(s, sep) ==
    IF ~Contains(s, sep)
    THEN <<s>>
    ELSE LET i == IndexOf(s, sep)
         IN  <<SubSeq(s, 1, i - 1)>> \o split(SubSeq(s, i + 1, Len(s)), sep)

\* sep.join(parts)
RECURSIVE join(_, _)
join(sep, parts) ==
    IF Len(parts) = 0 THEN <<>>
    ELSE IF Len(parts) = 1 THEN parts[1]
    ELSE parts[1] \o <<sep>> \o join(sep, Tail(parts))

----------------------------------------------------------------------------
(* FlockerBranch *)

NoBranch == [flockerName |-> <<>>, volume |-> <<>>, branch |-> <<>>]

\* no input drawn, no conversion applied
NoArg == [kind |-> "none", s |-> <<>>, id |-> NoBranch, pool |-> <<>>,
          owner |-> <<>>, other |-> <<>>, listing |-> <<>>]
NoRes == [fn |-> "none", exc |-> "none", value |-> NoBranch, mid |-> <<>>]

Returned(v) == [exc |-> "none", value |-> v]
Raised(e, v) == [exc |-> e, value |-> v]

\* FlockerBranch with surplus positional arguments dropped instead of refused
FlockerBranch_lenient(parts) ==
    IF Len(parts) >= 3
    THEN Returned([flockerName |-> parts[1], volume |-> parts[2],
                   branch |-> parts[3]])
    ELSE Raised("TypeError", NoBranch)

\* cls(*parts): the namedtuple takes exactly three positional arguments
FlockerBranch(parts) ==
    IF Len(parts) = 3
    THEN Returned([flockerName |-> parts[1], volume |-> parts[2],
                   branch |-> parts[3]])
    ELSE Raised("TypeError", NoBranch)

datasetName(self, pool) ==
    pool \o <<Slash>> \o join(Dot, <<self.flockerName, self.volume, self.branch>>)

fromDatasetName(name) == FlockerBranch(split(name, Dot))

\* fromBranchName with the default owner appended instead of put first
fromBranchName_append(branchName, thisFlockerName) ==
    LET parts == split(branchName, Slash)
    IN  IF Len(parts) = 2
        THEN FlockerBranch(parts \o <<thisFlockerName>>)
        ELSE FlockerBranch(parts)

fromBranchName(branchName, thisFlockerName) ==
    LET parts == split(branchName, Slash)
    IN  IF Len(parts) = 2
        THEN FlockerBranch(<<thisFlockerName>> \o parts)
        ELSE FlockerBranch(parts)

----------------------------------------------------------------------------
(* Flocker.listVolumes *)

\* the display string of one branch: short form for this flocker's own
\* branches, long form otherwise
display(branch, flockerName) ==
    IF branch.flockerName = flockerName
    THEN branch.volume \o <<Slash>> \o branch.branch
    ELSE join(Slash, <<branch.flockerName, branch.volume, branch.branch>>)

\* listVolumes with the unmanaged entries converted like the others
RECURSIVE listVolumes_noSkip(_, _)
listVolumes_noSkip(listing, flockerName) ==
    IF listing = <<>>
    THEN Returned(<<>>)
    ELSE LET branch == fromDatasetName(Head(listing))
             rest == listVolumes_noSkip(Tail(listing), flockerName)
         IN  IF branch.exc # "none"
             THEN Raised(branch.exc, <<>>)
             ELSE IF rest.exc # "none"
             THEN rest
             ELSE Returned(<<display(branch.value, flockerName)>> \o rest.value)

\* listing is self.mountRoot.listdir(); the first entry that does not
\* convert ends the call with its exception
RECURSIVE listVolumes(_, _)
listVolumes(listing, flockerName) ==
    IF listing = <<>>
    THEN Returned(<<>>)
    ELSE LET branchName == Head(listing)
             rest == listVolumes(Tail(listing), flockerName)
         IN  IF ~Contains(branchName, Dot)
             THEN rest
             ELSE LET branch == fromDatasetName(branchName)
                  IN  IF branch.exc # "none"
                      THEN Raised(branch.exc, <<>>)
                      ELSE IF rest.exc # "none"
                      THEN rest
                      ELSE Returned(<<display(branch.value, flockerName)>>
                                    \o rest.value)

----------------------------------------------------------------------------
(* The ZFS pool and the zfs command *)

\* the flocker process runs sharing the pool
Procs == {"A", "B"}

Trunk == <<"t", "r", "u", "n", "k">>

NoCommand == [op |-> "none", volumeName |-> <<>>, newBranch |-> NoBranch,
              fromBranch |-> NoBranch, snapshotName |-> <<>>]
NoError == [exc |-> "none", cmd |-> "none", args |-> <<>>]

\* the namespace after a 'zfs' command and the command's exit code:
\*   create    refuses an existing dataset;
\*   snapshot  refuses a missing dataset and an existing snapshot;
\*   clone     refuses a missing snapshot and an existing target.
ZfsCommand(command, arguments) ==
    LET refused == [rc |-> 1, datasets |-> datasets, snapshots |-> snapshots,
                    origin |-> origin]
        name == arguments[1]
    IN  CASE command = "create" ->
                IF name \in datasets THEN refused
                ELSE [refused EXCEPT !.rc = 0,
                                     !.datasets = datasets \cup {name}]
          [] command = "snapshot" ->
                IF \/ ~Contains(name, At)
                   \/ SubSeq(name, 1, IndexOf(name, At) - 1) \notin datasets
                   \/ name \in snapshots
                THEN refused
                ELSE [refused EXCEPT !.rc = 0,
                                     !.snapshots = snapshots \cup {name}]
          [] command = "clone" ->
                IF name \notin snapshots \/ arguments[2] \in datasets
                THEN refused
                ELSE [refused EXCEPT
                         !.rc = 0,
                         !.datasets = datasets \cup {arguments[2]},
                         !.origin = origin \cup {<<arguments[2], name>>}]

\* zfs(*arguments) called by process run p: the command runs, the call is
\* over with its exit code; check_call raises on a non-zero one
zfs(p, command, arguments) ==
    LET r == ZfsCommand(command, arguments)
    IN  /\ datasets' = r.datasets
        /\ snapshots' = r.snapshots
        /\ origin' = r.origin
        /\ calls' = [calls EXCEPT ![p] =
              Append(@, [cmd |-> command, args |-> arguments, rc |-> r.rc])]

CalledProcessError(command, arguments) ==
    [exc |-> "CalledProcessError", cmd |-> command, args |-> arguments]

ExitCode(command, arguments) == ZfsCommand(command, arguments).rc

----------------------------------------------------------------------------
(* Flocker *)

OwnerNames == {<<"p">>, <<"q">>}
VolumeNames == {<<"d", "b">>, <<"w">>}
BranchNames == {Trunk, <<"f">>, <<"g">>}
RunIds == [flockerName : OwnerNames, volume : VolumeNames, branch : BranchNames]

PoolNames == OwnerNames

\* namespaces a pool can be found in: empty; one volume; one volume with a
\* branch made off its trunk; the trunks of a local and of a foreign volume
InitialNamespaces(pool) ==
    LET T == datasetName([flockerName |-> pool, volume |-> <<"d", "b">>,
                          branch |-> Trunk], pool)
        F == datasetName([flockerName |-> pool, volume |-> <<"d", "b">>,
                          branch |-> <<"f">>], pool)
        Q == datasetName([flockerName |-> CHOOSE o \in OwnerNames : o # pool,
                          volume |-> <<"d", "b">>,
                          branch |-> Trunk], pool)
        S == T \o <<At>> \o <<"f">>
    IN  { [datasets |-> {}, snapshots |-> {}, origin |-> {}],
          [datasets |-> {T}, snapshots |-> {}, origin |-> {}],
          [datasets |-> {T, F}, snapshots |-> {S}, origin |-> {<<F, S>>}],
          [datasets |-> {T, Q}, snapshots |-> {}, origin |-> {}] }

Init ==
    /\ poolName \in PoolNames
    /\ \E ns \in InitialNamespaces(poolName) :
          /\ datasets = ns.datasets
          /\ snapshots = ns.snapshots
          /\ origin = ns.origin
          /\ initial = [datasets |-> ns.datasets, snapshots |-> ns.snapshots]
    /\ pc = [p \in Procs |-> "start"]
    /\ cur = [p \in Procs |-> NoCommand]
    /\ calls = [p \in Procs |-> <<>>]
    /\ outcome = [p \in Procs |-> NoError]
    /\ arg = NoArg
    /\ res = NoRes

\* createVolume refusing an existing volume itself, without a zfs call
CreateVolume_checksFirst(p, volumeName) ==
    LET trunk == datasetName([flockerName |-> poolName, volume |-> volumeName,
                              branch |-> Trunk], poolName)
    IN  /\ pc[p] = "start"
        /\ cur' = [cur EXCEPT ![p] = [NoCommand EXCEPT
                      !.op = "createVolume", !.volumeName = volumeName]]
        /\ IF trunk \in datasets
           THEN /\ outcome' = [outcome EXCEPT ![p] =
                      [exc |-> "ValueError", cmd |-> "none", args |-> <<>>]]
                /\ UNCHANGED <<datasets, snapshots, origin, calls>>
           ELSE /\ zfs(p, "create", <<trunk>>)
                /\ UNCHANGED outcome
        /\ pc' = [pc EXCEPT ![p] = "done"]
        /\ UNCHANGED <<poolName, initial, arg, res>>

\* Flocker(poolName).createVolume(volumeName), the 'volume' sub-command
CreateVolume(p, volumeName) ==
    LET trunk == datasetName([flockerName |-> poolName, volume |-> volumeName,
                              branch |-> Trunk], poolName)
    IN  /\ pc[p] = "start"
        /\ cur' = [cur EXCEPT ![p] = [NoCommand EXCEPT
                      !.op = "createVolume", !.volumeName = volumeName]]
        /\ zfs(p, "create", <<trunk>>)
        /\ outcome' = [outcome EXCEPT ![p] =
              IF ExitCode("create", <<trunk>>) = 0 THEN NoError
              ELSE CalledProcessError("create", <<trunk>>)]
        /\ pc' = [pc EXCEPT ![p] = "done"]
        /\ UNCHANGED <<poolName, initial, arg, res>>

\* branchOffBranch without the volume comparison
BranchOffBranch_noCheck(p, newBranch, fromBranch) ==
    /\ pc[p] = "start"
    /\ cur' = [cur EXCEPT ![p] = [NoCommand EXCEPT
                  !.op = "branchOffBranch", !.newBranch = newBranch,
                  !.fromBranch = fromBranch,
                  !.snapshotName =
                      datasetName(fromBranch, poolName) \o <<At>>
                          \o newBranch.branch]]
    /\ pc' = [pc EXCEPT ![p] = "snapshot"]
    /\ UNCHANGED <<poolName, datasets, snapshots, origin, initial, calls,
                   outcome, arg, res>>

\* branchOffBranch naming the snapshot after the source branch
BranchOffBranch_tagFromSource(p, newBranch, fromBranch) ==
    /\ pc[p] = "start"
    /\ IF newBranch.volume # fromBranch.volume
       THEN /\ cur' = [cur EXCEPT ![p] = [NoCommand EXCEPT
                          !.op = "branchOffBranch", !.newBranch = newBranch,
                          !.fromBranch = fromBranch]]
            /\ outcome' = [outcome EXCEPT ![p] =
                  [exc |-> "ValueError", cmd |-> "none", args |-> <<>>]]
            /\ pc' = [pc EXCEPT ![p] = "done"]
       ELSE /\ cur' = [cur EXCEPT ![p] = [NoCommand EXCEPT
                          !.op = "branchOffBranch", !.newBranch = newBranch,
                          !.fromBranch = fromBranch,
                          !.snapshotName =
                              datasetName(fromBranch, poolName) \o <<At>>
                                  \o fromBranch.branch]]
            /\ pc' = [pc EXCEPT ![p] = "snapshot"]
            /\ UNCHANGED outcome
    /\ UNCHANGED <<poolName, datasets, snapshots, origin, initial, calls,
                   arg, res>>

\* Flocker(poolName).branchOffBranch(newBranch, fromBranch), the 'branch'
\* sub-command, up to its first zfs call
BranchOffBranch(p, newBranch, fromBranch) ==
    /\ pc[p] = "start"
    /\ IF newBranch.volume # fromBranch.volume
       THEN /\ cur' = [cur EXCEPT ![p] = [NoCommand EXCEPT
                          !.op = "branchOffBranch", !.newBranch = newBranch,
                          !.fromBranch = fromBranch]]
            /\ outcome' = [outcome EXCEPT ![p] =
                  [exc |-> "ValueError", cmd |-> "none", args |-> <<>>]]
            /\ pc' = [pc EXCEPT ![p] = "done"]
       ELSE /\ cur' = [cur EXCEPT ![p] = [NoCommand EXCEPT
                          !.op = "branchOffBranch", !.newBranch = newBranch,
                          !.fromBranch = fromBranch,
                          !.snapshotName =
                              datasetName(fromBranch, poolName) \o <<At>>
                                  \o newBranch.branch]]
            /\ pc' = [pc EXCEPT ![p] = "snapshot"]
            /\ UNCHANGED outcome
    /\ UNCHANGED <<poolName, datasets, snapshots, origin, initial, calls,
                   arg, res>>

\* the snapshot call with its exit code ignored
BranchSnapshot_ignoreExit(p) ==
    /\ pc[p] = "snapshot"
    /\ zfs(p, "snapshot", <<cur[p].snapshotName>>)
    /\ pc' = [pc EXCEPT ![p] = "clone"]
    /\ UNCHANGED <<poolName, initial, cur, outcome, arg, res>>

\* zfs(b"snapshot", snapshotName)
BranchSnapshot(p) ==
    LET arguments == <<cur[p].snapshotName>>
    IN  /\ pc[p] = "snapshot"
        /\ zfs(p, "snapshot", arguments)
        /\ IF ExitCode("snapshot", arguments) = 0
           THEN /\ pc' = [pc EXCEPT ![p] = "clone"]
                /\ UNCHANGED outcome
           ELSE /\ pc' = [pc EXCEPT ![p] = "done"]
                /\ outcome' = [outcome EXCEPT ![p] =
                      CalledProcessError("snapshot", arguments)]
        /\ UNCHANGED <<poolName, initial, cur, arg, res>>

\* the clone call followed, when it fails, by a destroy of the snapshot
BranchClone_rollback(p) ==
    LET arguments == <<cur[p].snapshotName,
                       datasetName(cur[p].newBranch, poolName)>>
        r == ZfsCommand("clone", arguments)
    IN  /\ pc[p] = "clone"
        /\ datasets' = r.datasets
        /\ origin' = r.origin
        /\ snapshots' = IF r.rc = 0 THEN r.snapshots
                        ELSE r.snapshots \ {cur[p].snapshotName}
        /\ calls' = [calls EXCEPT ![p] =
              IF r.rc = 0
              THEN Append(@, [cmd |-> "clone", args |-> arguments, rc |-> 0])
              ELSE @ \o <<[cmd |-> "clone", args |-> arguments, rc |-> r.rc],
                          [cmd |-> "destroy",
                           args |-> <<cur[p].snapshotName>>, rc |-> 0]>>]
        /\ outcome' = [outcome EXCEPT ![p] =
              IF r.rc = 0 THEN NoError
              ELSE CalledProcessError("clone", arguments)]
        /\ pc' = [pc EXCEPT ![p] = "done"]
        /\ UNCHANGED <<poolName, initial, cur, arg, res>>

\* zfs(b"clone", snapshotName, newBranch.datasetName(self.poolName))
BranchClone(p) ==
    LET arguments == <<cur[p].snapshotName,
                       datasetName(cur[p].newBranch, poolName)>>
    IN  /\ pc[p] = "clone"
        /\ zfs(p, "clone", arguments)
        /\ outcome' = [outcome EXCEPT ![p] =
              IF ExitCode("clone", arguments) = 0 THEN NoError
              ELSE CalledProcessError("clone", arguments)]
        /\ pc' = [pc EXCEPT ![p] = "done"]
        /\ UNCHANGED <<poolName, initial, cur, arg, res>>

Next ==
    \E p \in Procs :
        \/ \E volumeName \in VolumeNames : CreateVolume(p, volumeName)
        \/ \E newBranch \in RunIds, fromBranch \in RunIds :
              BranchOffBranch(p, newBranch, fromBranch)
        \/ BranchSnapshot(p)
        \/ BranchClone(p)

Spec == Init /\ [][Next]_vars

----------------------------------------------------------------------------
(* SpecCodec: the conversions applied to drawn inputs *)

Tokens == StringsUpTo(TokenChars, MaxTokLen) \ {<<>>}
BranchIds == [flockerName : Tokens, volume : Tokens, branch : Tokens]
RawStrings == StringsUpTo(RawChars, MaxLen)

\* names a directory under the mount root can have: managed branches of this
\* and of another flocker, unmanaged files, and dotted names that are not
\* three tokens long
ListingEntries ==
    {join(Dot, <<o, v, b>>) :
        o \in {<<"p">>, <<"a">>}, v \in {<<"a">>}, b \in {<<"p">>, <<"a", "p">>}}
    \cup {<<"a", "p">>, <<"p">>}
    \cup {<<"a", Dot, Dot, "p">>, <<"a", Dot, "p">>}
Listings == UNION {[1..k -> ListingEntries] : k \in 0..MaxListing}

Result(fn, r, mid) ==
    [fn |-> fn, exc |-> r.exc, value |-> r.value, mid |-> mid]

\* one-character names, for the owners that need no variety
ShortTokens == StringsUpTo(TokenChars, 1) \ {<<>>}

\* the inputs drawn: a raw string and a default owner; a valid identifier and
\* a valid pool name; a valid identifier, the local owner and a default
\* owner; a listing of the mount root and the local owner
CodecArg(a) ==
    \/ \E s \in RawStrings, o \in ShortTokens :
          a = [NoArg EXCEPT !.kind = "raw", !.s = s, !.owner = o]
    \/ \E id \in BranchIds, p \in Tokens :
          a = [NoArg EXCEPT !.kind = "flat", !.id = id, !.pool = p]
    \/ \E id \in BranchIds, o \in Tokens, d \in Tokens :
          a = [NoArg EXCEPT !.kind = "ref", !.id = id, !.owner = o, !.other = d]
    \/ \E l \in Listings, o \in ShortTokens :
          a = [NoArg EXCEPT !.kind = "listing", !.listing = l, !.owner = o]

InitCodec ==
    /\ CodecArg(arg)
    /\ res = NoRes
    /\ poolName = IF arg.kind = "flat" THEN arg.pool ELSE arg.owner
    /\ datasets = {} /\ snapshots = {} /\ origin = {}
    /\ initial = [datasets |-> {}, snapshots |-> {}]
    /\ pc = [p \in Procs |-> "done"]
    /\ cur = [p \in Procs |-> NoCommand]
    /\ calls = [p \in Procs |-> <<>>]
    /\ outcome = [p \in Procs |-> NoError]

CodecFrame ==
    UNCHANGED <<poolName, datasets, snapshots, origin, initial, pc, cur,
                calls, outcome, arg>>

\* FlockerBranch.fromDatasetName(s)
FromDatasetName ==
    /\ arg.kind = "raw" /\ res.fn = "none"
    /\ res' = Result("fromDatasetName", fromDatasetName(arg.s), <<>>)
    /\ CodecFrame

\* FlockerBranch.fromBranchName(s, owner)
FromBranchName ==
    /\ arg.kind = "raw" /\ res.fn = "none"
    /\ res' = Result("fromBranchName", fromBranchName(arg.s, arg.owner), <<>>)
    /\ CodecFrame

\* FlockerBranch.fromDatasetName(id.datasetName(pool))
DatasetRoundTrip ==
    /\ arg.kind = "flat" /\ res.fn = "none"
    /\ LET flat == datasetName(arg.id, arg.pool)
       IN  res' = Result("datasetRoundTrip", fromDatasetName(flat), flat)
    /\ CodecFrame

\* FlockerBranch.fromBranchName(display of id for flocker owner, other)
ReferenceRoundTrip ==
    /\ arg.kind = "ref" /\ res.fn = "none"
    /\ LET shown == display(arg.id, arg.owner)
       IN  res' = Result("referenceRoundTrip",
                         fromBranchName(shown, arg.other), shown)
    /\ CodecFrame

\* Flocker(owner).listVolumes() with the mount root listing as drawn
ListVolumes ==
    /\ arg.kind = "listing" /\ res.fn = "none"
    /\ res' = Result("listVolumes", listVolumes(arg.listing, poolName), <<>>)
    /\ CodecFrame

NextCodec ==
    \/ FromDatasetName
    \/ FromBranchName
    \/ DatasetRoundTrip
    \/ ReferenceRoundTrip
    \/ ListVolumes

SpecCodec == InitCodec /\ [][NextCodec]_vars

----------------------------------------------------------------------------
(* Properties of the conversions *)

Count(s, c) == Cardinality({i \in 1..Len(s) : s[i] = c})

\* the part of a dataset name after the pool's leading path segment
Suffix(s) ==
    IF Contains(s, Slash) THEN SubSeq(s, IndexOf(s, Slash) + 1, Len(s)) ELSE s

\* s is t1 sep t2 sep t3 with no sep in the three tokens: the tokens
SplitsInThree(s, sep, t1, t2, t3) ==
    /\ s = t1 \o <<sep>> \o t2 \o <<sep>> \o t3
    /\ ~Contains(t1, sep) /\ ~Contains(t2, sep) /\ ~Contains(t3, sep)

\* s has exactly three sep-separated tokens, none of them empty
ThreeNonEmptyTokens(s, sep) ==
    /\ Count(s, sep) = 2
    /\ s[1] # sep /\ s[Len(s)] # sep
    /\ \A i \in 1..(Len(s) - 1) : ~(s[i] = sep /\ s[i + 1] = sep)

\* C1: decoding the flat name encoded from a valid identifier and a valid pool
\* name gives the identifier back, equal in all three fields.
C1_FlatNameRoundTrip ==
    res.fn = "datasetRoundTrip" =>
        /\ res.exc = "none"
        /\ res.value = arg.id

HasDot(e) == Contains(e, Dot)

\* C6: on a listing whose dotted entries all have three tokens, listVolumes
\* returns one string per dotted entry, in listing order, skipping the
\* undotted entries; the string is volume/branch for the local owner's
\* entries and owner/volume/branch for the others.
C6_ListVolumes ==
    LET dotted == SelectSeq(arg.listing, HasDot)
    IN  (/\ res.fn = "listVolumes"
         /\ \A i \in 1..Len(dotted) : Count(dotted[i], Dot) = 2)
        =>
        /\ res.exc = "none"
        /\ Len(res.value) = Len(dotted)
        /\ \A i \in 1..Len(dotted) :
              \E d1, d2 \in 1..Len(dotted[i]) :
                 LET o == SubSeq(dotted[i], 1, d1 - 1)
                     v == SubSeq(dotted[i], d1 + 1, d2 - 1)
                     b == SubSeq(dotted[i], d2 + 1, Len(dotted[i]))
                 IN  /\ d1 < d2
                     /\ SplitsInThree(dotted[i], Dot, o, v, b)
                     /\ res.value[i] =
                           IF o = arg.owner
                           THEN v \o <<Slash>> \o b
                           ELSE o \o <<Slash>> \o v \o <<Slash>> \o b

\* a listing with an unmanaged entry between a foreign and a local branch,
\* listed as two strings
C6_Witness ==
    /\ res.fn = "listVolumes"
    /\ arg.owner = <<"p">>
    /\ arg.listing = << <<"a", Dot, "a", Dot, "p">>, <<"a", "p">>,
                        <<"p", Dot, "a", Dot, "a", "p">> >>
    /\ res.exc = "none"
    /\ res.value = << <<"a", Slash, "a", Slash, "p">>,
                      <<"a", Slash, "a", "p">> >>

\* C7: the display form of a valid identifier is volume/branch when its
\* owner is the local owner and owner/volume/branch otherwise; parsing the
\* short form with the local owner as default, or the long form with any
\* default owner, gives the identifier back.
C7_ReferenceRoundTrip ==
    res.fn = "referenceRoundTrip" =>
        LET id == arg.id
        IN  /\ id.flockerName = arg.owner =>
                 /\ res.mid = id.volume \o <<Slash>> \o id.branch
                 /\ arg.other = arg.owner =>
                       (res.exc = "none" /\ res.value = id)
            /\ id.flockerName # arg.owner =>
                 /\ res.mid = id.flockerName \o <<Slash>> \o id.volume
                                 \o <<Slash>> \o id.branch
                 /\ res.exc = "none"
                 /\ res.value = id

\* a local identifier shown in short form and parsed back
C7_Witness ==
    /\ res.fn = "referenceRoundTrip"
    /\ arg.id.flockerName = arg.owner
    /\ arg.other = arg.owner
    /\ Len(arg.id.volume) = 2
    /\ Count(res.mid, Slash) = 1
    /\ res.value = arg.id

\* C8: fromBranchName splits on '/'; with fewer than two or more than three
\* tokens it raises; with two it returns (default owner, token 1, token 2);
\* with three it returns the three tokens, whatever the default owner.
C8_ParseReference ==
    res.fn = "fromBranchName" =>
        LET n == Count(arg.s, Slash) + 1
            r == res.value
        IN  /\ n \notin {2, 3} => res.exc = "TypeError"
            /\ n = 2 =>
                 /\ res.exc = "none"
                 /\ r.flockerName = arg.owner
                 /\ arg.s = r.volume \o <<Slash>> \o r.branch
                 /\ ~Contains(r.volume, Slash) /\ ~Contains(r.branch, Slash)
            /\ n = 3 =>
                 /\ res.exc = "none"
                 /\ SplitsInThree(arg.s, Slash, r.flockerName, r.volume,
                                  r.branch)

\* a reference of four tokens refused
C8_Witness ==
    /\ res.fn = "fromBranchName"
    /\ Count(arg.s, Slash) = 3
    /\ res.exc = "TypeError"

----------------------------------------------------------------------------
(* Properties of the volume manager *)

\* <pool>/<owner>.<volume>.<branch>
FlatName(id) ==
    poolName \o <<Slash>> \o id.flockerName \o <<Dot>> \o id.volume
        \o <<Dot>> \o id.branch

\* <flat dataset name>@<tag>
SnapshotOf(id, tag) == FlatName(id) \o <<At>> \o tag

\* the zfs invocations of process run p, without their exit codes
Issued(p) ==
    [i \in 1..Len(calls[p]) |->
        [cmd |-> calls[p][i].cmd, args |-> calls[p][i].args]]

Branching(p) == cur[p].op = "branchOffBranch"
CrossVolume(p) == cur[p].newBranch.volume # cur[p].fromBranch.volume

\* the two engine calls of a branchOffBranch, in order
BranchCalls(p) ==
    << [cmd |-> "snapshot",
        args |-> <<SnapshotOf(cur[p].fromBranch, cur[p].newBranch.branch)>>],
       [cmd |-> "clone",
        args |-> <<SnapshotOf(cur[p].fromBranch, cur[p].newBranch.branch),
                   FlatName(cur[p].newBranch)>>] >>

\* C3: branchOffBranch with different volumes ends with the cross-volume
\* error, whatever the owners and branch names, having issued no zfs call
\* and leaving the datasets and snapshots as they were.
C3_CrossVolumeFails ==
    /\ [](\A p \in Procs :
             (Branching(p) /\ CrossVolume(p)) =>
                 /\ pc[p] = "done"
                 /\ outcome[p].exc = "ValueError"
                 /\ calls[p] = <<>>)
    /\ [][\A p \in Procs :
             (/\ pc[p] = "start"
              /\ Branching(p)'
              /\ CrossVolume(p)') => UNCHANGED engineVars]_vars

\* a refused branch across volumes, owners and branch names differing too
C3_Witness ==
    \E p \in Procs :
        /\ Branching(p) /\ CrossVolume(p)
        /\ cur[p].newBranch.flockerName # cur[p].fromBranch.flockerName
        /\ cur[p].newBranch.branch # cur[p].fromBranch.branch
        /\ FlatName(cur[p].fromBranch) \in datasets
        /\ outcome[p].exc = "ValueError"

\* C4 as stated: a finished branchOffBranch with equal volumes has issued
\* exactly the snapshot call and then the clone call.
C4_ExactlyTwoCalls ==
    \A p \in Procs :
        (Branching(p) /\ ~CrossVolume(p) /\ pc[p] = "done") =>
            Issued(p) = BranchCalls(p)

\* C4 amended: a branchOffBranch with equal volumes issues the snapshot call
\* and then, only once the snapshot call has returned exit code 0, the clone
\* call, and nothing else; it issues both when the snapshot call succeeds
\* and the snapshot call alone when it fails.
C4_SnapshotThenClone ==
    \A p \in Procs :
        (Branching(p) /\ ~CrossVolume(p)) =>
            /\ Len(calls[p]) <= 2
            /\ Issued(p) = SubSeq(BranchCalls(p), 1, Len(calls[p]))
            /\ Len(calls[p]) = 2 => calls[p][1].rc = 0
            /\ pc[p] = "done" =>
                  /\ Len(calls[p]) >= 1
                  /\ calls[p][1].rc = 0 => Len(calls[p]) = 2

\* a finished branch off an existing branch: both calls made, both succeeded
C4_Witness ==
    \E p \in Procs :
        /\ Branching(p) /\ ~CrossVolume(p) /\ pc[p] = "done"
        /\ Len(calls[p]) = 2
        /\ calls[p][1].rc = 0 /\ calls[p][2].rc = 0
        /\ cur[p].newBranch.flockerName # cur[p].fromBranch.flockerName

\* C5: when the snapshot call succeeds and the clone call fails, the
\* operation is over with the clone's CalledProcessError, the snapshot is
\* still there, and the clone call is the last call the operation issued.
C5_PartialFailure ==
    \A p \in Procs :
        (/\ Branching(p)
         /\ Len(calls[p]) >= 2
         /\ calls[p][1].cmd = "snapshot" /\ calls[p][1].rc = 0
         /\ calls[p][2].cmd = "clone" /\ calls[p][2].rc # 0)
        =>
        /\ pc[p] = "done"
        /\ outcome[p] = [exc |-> "CalledProcessError", cmd |-> "clone",
                         args |-> calls[p][2].args]
        /\ Len(calls[p]) = 2
        /\ calls[p][1].args[1] \in snapshots

\* a clone refused because its target exists, after its snapshot was taken
C5_Witness ==
    \E p \in Procs :
        /\ Branching(p) /\ pc[p] = "done"
        /\ cur[p].newBranch # cur[p].fromBranch
        /\ Len(calls[p]) = 2
        /\ calls[p][1].rc = 0 /\ calls[p][2].rc # 0
        /\ outcome[p].exc = "CalledProcessError"
        /\ SnapshotOf(cur[p].fromBranch, cur[p].newBranch.branch) \in snapshots

\* C9: createVolume issues exactly one zfs call, create of
\* <pool>/<local owner>.<volume>.trunk, and issues it whether or not that
\* dataset exists already.
C9_CreateVolume ==
    \A p \in Procs :
        cur[p].op = "createVolume" =>
            /\ pc[p] = "done"
            /\ Issued(p) =
                  << [cmd |-> "create",
                      args |-> <<poolName \o <<Slash>> \o poolName \o <<Dot>>
                                   \o cur[p].volumeName \o <<Dot>> \o Trunk>>] >>

\* a create issued for a volume whose trunk already existed, and refused
C9_Witness ==
    \E p \in Procs :
        /\ cur[p].op = "createVolume" /\ pc[p] = "done"
        /\ calls[p][1].args[1] \in initial.datasets
        /\ calls[p][1].rc # 0
        /\ outcome[p].exc = "CalledProcessError"

\* two branch operations off the same source, present from the start, to new
\* branch names that differ, neither new dataset nor snapshot present yet
Concurrent(p, q) ==
    /\ p # q
    /\ Branching(p) /\ Branching(q)
    /\ ~CrossVolume(p) /\ ~CrossVolume(q)
    /\ cur[p].fromBranch = cur[q].fromBranch
    /\ cur[p].newBranch.branch # cur[q].newBranch.branch
    /\ FlatName(cur[p].fromBranch) \in initial.datasets
    /\ \A r \in {p, q} :
          /\ FlatName(cur[r].newBranch) \notin initial.datasets
          /\ SnapshotOf(cur[r].fromBranch, cur[r].newBranch.branch)
                \notin initial.snapshots

====
